---- MODULE Spec2Model ----
(***************************************************************************)
(* Model of the crawl loop of crawler.js: the BFS queue, the visited set,  *)
(* the image verification cache and the per-page result records.            *)
(*                                                                         *)
(* A URL string is a sequence of tokens.  Each token stands for a run of   *)
(* characters of the string: "https://" is the scheme with its slashes,    *)
(* "x.com", ".evil.org" and "other.com" are pieces of a host name, "/",    *)
(* "?" and "#" are the single delimiter characters, ".pdf", ".PDF" and     *)
(* ".png" are file extensions, and the remaining tokens are path segments, *)
(* a query and a fragment.  No token is a prefix of another, so            *)
(* String.startsWith is the prefix relation on token sequences.            *)
(***************************************************************************)
EXTENDS Integers, Sequences, FiniteSets, TLC

\* ---------------------------------------------------------------- bounds
MaxLinks == 3
MaxImages == 2

\* ------------------------------------------------------------ URL strings
Scheme == "https://"
PathDelims == {"/", "?", "#"}
HostTokens == {"x.com", ".evil.org", "other.com"}

Origin_x == <<Scheme, "x.com">>

U_rootSl == Origin_x \o <<"/">>
U_a == Origin_x \o <<"/", "a">>
U_aSl == Origin_x \o <<"/", "a", "/">>
U_aQ == Origin_x \o <<"/", "a", "?", "v=1">>
U_b == Origin_x \o <<"/", "b">>
U_bFrag == Origin_x \o <<"/", "b", "#", "top">>
U_c == Origin_x \o <<"/", "c">>
U_bc == Origin_x \o <<"/", "b", "/", "c">>
U_doc == Origin_x \o <<"/", "d", ".pdf">>
U_docUp == Origin_x \o <<"/", "d", ".PDF">>
U_evil == <<Scheme, "x.com", ".evil.org", "/", "p">>
U_evilDoc == <<Scheme, "x.com", ".evil.org", "/", "d", ".pdf">>
U_other == <<Scheme, "other.com", "/", "p">>

I_logo == Origin_x \o <<"/", "logo", ".png">>
I_logoQ == Origin_x \o <<"/", "logo", ".png", "?", "v=1">>
I_hero == Origin_x \o <<"/", "hero", ".png">>
I_data == <<"data:", "image/png;base64">>
I_none == <<>>

\* The values the ROOT constant is configured with: an origin, an origin
\* followed by a path prefix, and the address of a document.
ROOTS == {Origin_x, U_b, U_doc}

\* ------------------------------------------------------------ URL parsing
\* Index of the first token of u at or after position from that is in D,
\* Len(u) + 1 when there is none.
RECURSIVE FirstIn(_, _, _)
FirstIn(u, from, D) ==
    IF from > Len(u) THEN Len(u) + 1
    ELSE IF u[from] \in D THEN from
    ELSE FirstIn(u, from + 1, D)

\* Index of the first token of u at or after position from that is not a
\* slash, Len(u) + 1 when there is none.
RECURSIVE SkipSlashes(_, _)
SkipSlashes(u, from) ==
    IF from > Len(u) THEN Len(u) + 1
    ELSE IF u[from] /= "/" THEN from
    ELSE SkipSlashes(u, from + 1)

\* Tokens that start with a letter, and tokens made of characters that a
\* scheme may contain (letters, digits, "+", "-", ".").
AlphaTokens ==
    {"a", "b", "c", "d", "p", "logo", "hero", "top", "null", "urn",
     "x.com", "other.com"}
SchemeTokens == AlphaTokens \cup {".evil.org", ".pdf", ".PDF", ".png"}

\* Index of the token that ends the scheme of url, 0 when url has no scheme.
SchemeEnd(url) ==
    IF url = <<>> THEN 0
    ELSE IF url[1] \in {Scheme, "data:"} THEN 1
    ELSE LET colon == FirstIn(url, 1, {":"})
         IN IF /\ colon <= Len(url)
               /\ url[1] \in AlphaTokens
               /\ \A i \in 1..(colon - 1) : url[i] \in SchemeTokens
            THEN colon
            ELSE 0

\* Host and port between the slashes and the path are accepted: a host
\* unless the scheme is not special, and no port but the empty one (no
\* token is a number).
AuthorityOk(auth, special) ==
    LET colon == FirstIn(auth, 1, {":"})
    IN /\ special => auth /= <<>> /\ auth /= <<":">>
       /\ \/ colon > Len(auth)
          \/ colon = Len(auth) /\ colon > 1

\* String.toLowerCase on one token
ToLowerCase(tok) == IF tok = ".PDF" THEN ".pdf" ELSE tok

\* What stands for a string that new URL rejects.
InvalidUrl ==
    [ok |-> FALSE, origin |-> <<>>, pathname |-> <<>>, search |-> <<>>,
     hash |-> <<>>]

\* The parts of a URL whose host and port are auth and whose path starts at
\* hostEnd. A special URL has the origin scheme and host (lower-cased) and
\* never an empty path; the others have the origin "null".
UrlRecord(url, special, auth, hostEnd, pathEnd, hashAt) ==
    IF AuthorityOk(auth, special)
    THEN [ok |-> TRUE,
          origin |-> IF special
                     THEN <<Scheme>>
                          \o [i \in 1..(FirstIn(auth, 1, {":"}) - 1)
                                 |-> ToLowerCase(auth[i])]
                     ELSE <<"null">>,
          pathname |-> IF special /\ hostEnd = pathEnd
                       THEN <<"/">>
                       ELSE SubSeq(url, hostEnd, pathEnd - 1),
          search |-> SubSeq(url, pathEnd, hashAt - 1),
          hash |-> SubSeq(url, hashAt, Len(url))]
    ELSE InvalidUrl

\* Where the host starts: after "https://" and any more slashes, after the
\* "//" that follows another scheme, or nowhere (the path follows the
\* scheme).
HostStart(url, e, special) ==
    IF special
    THEN SkipSlashes(url, 2)
    ELSE IF e + 2 <= Len(url) /\ url[e + 1] = "/" /\ url[e + 2] = "/"
         THEN e + 3
         ELSE e + 1

\* Where the path starts: at the first delimiter after the host.
HostEnd(url, e, special, hostStart) ==
    IF special \/ hostStart = e + 3
    THEN FirstIn(url, hostStart, PathDelims)
    ELSE hostStart

ParseFrom(url, special, hostStart, hostEnd) ==
    UrlRecord(url, special, SubSeq(url, hostStart, hostEnd - 1), hostEnd,
              FirstIn(url, hostEnd, {"?", "#"}), FirstIn(url, hostEnd, {"#"}))

ParseScheme(url, e, special) ==
    ParseFrom(url, special, HostStart(url, e, special),
              HostEnd(url, e, special, HostStart(url, e, special)))

\* new URL(url) without a base. The scheme https is special; the path of
\* the other schemes is what follows the scheme (or the host, after "//")
\* up to "?" or "#". No token is "." or "..".
ParseURL(url) ==
    IF SchemeEnd(url) = 0
    THEN InvalidUrl
    ELSE ParseScheme(url, SchemeEnd(url),
                     SchemeEnd(url) = 1 /\ url[1] = Scheme)

\* As StripTrailingSlashes, but for the pattern /\/$/: one slash only.
StripTrailingSlashes_One(s) ==
    IF s /= <<>> /\ s[Len(s)] = "/" THEN SubSeq(s, 1, Len(s) - 1) ELSE s

\* str.replace(/\/+$/, '')
RECURSIVE StripTrailingSlashes(_)
StripTrailingSlashes(s) ==
    IF s /= <<>> /\ s[Len(s)] = "/"
    THEN StripTrailingSlashes(SubSeq(s, 1, Len(s) - 1))
    ELSE s

\* The return value of normalizeUrl(url), parsedUrl being new URL(url).
PageIdentity(parsedUrl, url) ==
    IF parsedUrl.ok
    THEN StripTrailingSlashes(parsedUrl.origin \o parsedUrl.pathname)
    ELSE url

\* As normalizeUrl, but the catch returns the empty string.
normalizeUrl_CatchEmpty(url) ==
    IF ParseURL(url).ok THEN PageIdentity(ParseURL(url), url) ELSE <<>>

normalizeUrl(url) == PageIdentity(ParseURL(url), url)

\* The return value of normalizeImageUrl(url), parsedUrl being new URL(url).
AssetIdentity(parsedUrl, url) ==
    IF parsedUrl.ok THEN parsedUrl.origin \o parsedUrl.pathname ELSE url

\* As normalizeImageUrl, but the query string is kept.
normalizeImageUrl_KeepSearch(url) ==
    AssetIdentity(ParseURL(url), url)
       \o (IF ParseURL(url).ok THEN ParseURL(url).search ELSE <<>>)

normalizeImageUrl(url) == AssetIdentity(ParseURL(url), url)

DOCUMENT_EXTENSIONS ==
    {".pdf", ".doc", ".docx", ".xls", ".xlsx", ".ppt", ".pptx",
     ".jpg", ".jpeg", ".png", ".gif", ".bmp", ".svg", ".webp",
     ".mp4", ".avi", ".mov", ".wmv",
     ".zip", ".rar", ".7z",
     ".txt", ".rtf"}

\* pathname.endsWith(ext) for some extension, the pathname lower-cased or
\* as it is
EndsWithExtension(pathname, lowerCased) ==
    /\ pathname /= <<>>
    /\ (IF lowerCased THEN ToLowerCase(pathname[Len(pathname)])
                      ELSE pathname[Len(pathname)]) \in DOCUMENT_EXTENSIONS

\* The return value of isDocumentUrl, parsedUrl being new URL(url).
IsDocument(parsedUrl, lowerCased) ==
    parsedUrl.ok /\ EndsWithExtension(parsedUrl.pathname, lowerCased)

\* As isDocumentUrl, but without pathname.toLowerCase().
isDocumentUrl_CaseSensitive(url) == IsDocument(ParseURL(url), FALSE)

isDocumentUrl(url) == IsDocument(ParseURL(url), TRUE)

\* String.startsWith
StartsWith(s, prefix) ==
    Len(prefix) <= Len(s) /\ SubSeq(s, 1, Len(prefix)) = prefix

\* ------------------------------------------------------- sequence helpers
Take(s, n) == SubSeq(s, 1, IF Len(s) < n THEN Len(s) ELSE n)

Range(s) == {s[i] : i \in 1..Len(s)}

RECURSIVE SelectIdx(_, _, _)
\* s.filter(x => Keep(x)) for a predicate given as the set of kept indices
SelectIdx(s, keep, i) ==
    IF i > Len(s) THEN <<>>
    ELSE (IF i \in keep THEN <<s[i]>> ELSE <<>>) \o SelectIdx(s, keep, i + 1)


\* ------------------------------------------------------------- the site
\* What the browser and the network give back is the input of the crawl.
\* Each page offers a few alternative anchor lists, image lists, titles and
\* descriptions; one of them is chosen when the page is read.  Hrefs are in
\* the serialised form a.href has (an absolute URL with a path).
SiteLinks(u) ==
    LET id == normalizeUrl(u)
    IN CASE id = Origin_x -> {<<U_a, U_b, U_doc, U_bFrag>>,
                              <<U_a, U_aSl, U_docUp>>,
                              <<U_evil, U_rootSl, U_aQ>>}
         [] id = U_a -> {<<U_c>>, <<U_rootSl, U_a, U_b, U_aQ>>}
         [] id = U_b -> {<<U_bc, U_a, U_bFrag>>, <<U_evilDoc, U_other>>}
         [] id = U_c -> {<<U_a, U_doc>>}
         [] id = U_bc -> {<<U_b>>}
         [] OTHER -> {<<>>}

DomImage(src, alt, complete, w, h) ==
    [src |-> src, alt |-> alt, complete |-> complete,
     naturalWidth |-> w, naturalHeight |-> h]

SiteImages(u) ==
    LET id == normalizeUrl(u)
    IN CASE id = Origin_x -> {<<DomImage(I_logo, "logo", TRUE, 10, 10),
                                DomImage(I_logoQ, " ", TRUE, 10, 10),
                                DomImage(I_hero, "", TRUE, 10, 0)>>,
                              <<DomImage(I_data, "", TRUE, 10, 10),
                                DomImage(I_logo, "logo", TRUE, 0, 0)>>}
         [] id = U_a -> {<<DomImage(I_logoQ, "logo", TRUE, 10, 10),
                           DomImage(I_hero, "", TRUE, 10, 10)>>}
         [] id = U_b -> {<<DomImage(I_none, "", FALSE, 0, 0),
                           DomImage(I_hero, "hero", FALSE, 0, 0)>>}
         [] OTHER -> {<<>>}

\* Titles, document types and error messages are token sequences as well;
\* <<>> is the empty string.
SiteTitles(u) ==
    IF normalizeUrl(u) = Origin_x THEN {<<>>, <<"Home">>} ELSE {<<"Page">>}

\* The (metaDescription, metaTags) pairs the two meta reads may give; the
\* first is also what they leave when the element is missing or the read
\* fails.
NoMetaTags == <<>>

SiteMeta(u) ==
    IF normalizeUrl(u) = U_a
    THEN {[metaDescription |-> "", metaTags |-> NoMetaTags],
          [metaDescription |-> "About",
           metaTags |-> [description |-> "About"]]}
    ELSE {[metaDescription |-> "", metaTags |-> NoMetaTags]}

\* Status codes a navigation response carries; 0 stands for a null response.
SiteStatuses(u) == IF normalizeUrl(u) = U_c THEN {200, 404} ELSE {200}
DocStatuses == {0, 200, 404}

\* What the in-page fetch(url, {method: 'HEAD'}) hands back, and "throw" for
\* page.evaluate itself failing.
ProbeOutcomes ==
    {[status |-> 200, ok |-> TRUE, throws |-> FALSE],
     [status |-> 204, ok |-> TRUE, throws |-> FALSE],
     [status |-> 404, ok |-> FALSE, throws |-> FALSE],
     [status |-> 0, ok |-> FALSE, throws |-> TRUE]}

\* ------------------------------------------------------------------ state
VARIABLES
    ROOT,           \* the configured root URL
    visited,        \* Set of page identities
    queue,          \* array of URLs
    results,        \* array of PageResults
    checkedImages,  \* Map: asset identity -> cache entry
    pc,             \* position of crawlAndTest
    url,            \* the target of the current iteration
    pageResult,     \* the PageResult of the current iteration
    imgIdx,         \* position of the image verification loop
    gotoLog,        \* network: URLs page.goto was called with, in order
    probeLog,       \* network: URLs a HEAD request was sent for, in order
    allLinksOf,     \* site: anchors read from each successfully read page
    depthOf,        \* discovery depth of every URL put on the queue
    listeners,      \* targets whose PageResult the page's handlers write to
    eventCount,     \* number of page events emitted so far
    report,         \* what generateReport wrote: <<>> or <<results>>
    arg,            \* calls of the URL functions on their own: the arguments
    fn,             \* ... the function called
    out             \* ... the values returned

pureVars == <<arg, fn, out>>

crawlVars == <<ROOT, visited, queue, results, checkedImages, pc, url,
               pageResult, imgIdx, gotoLog, probeLog, allLinksOf, depthOf,
               listeners, eventCount, report>>

vars == <<ROOT, visited, queue, results, checkedImages, pc, url, pageResult,
          imgIdx, gotoLog, probeLog, allLinksOf, depthOf, listeners,
          eventCount, report, arg, fn, out>>

NoUrl == <<>>
NoPageResult == [url |-> NoUrl]

EmptyMap == <<>>

Init ==
    /\ ROOT \in ROOTS
    /\ visited = {}
    /\ queue = <<ROOT>>
    /\ results = <<>>
    /\ checkedImages = EmptyMap
    /\ pc = "loop"
    /\ url = NoUrl
    /\ pageResult = NoPageResult
    /\ imgIdx = 0
    /\ gotoLog = <<>>
    /\ probeLog = <<>>
    /\ allLinksOf = EmptyMap
    /\ depthOf = (ROOT :> 0)
    /\ listeners = <<>>
    /\ eventCount = 0
    /\ report = <<>>
    /\ arg = <<>>
    /\ fn = "none"
    /\ out = <<>>

\* ------------------------------------------------------------ PageResult
DefaultImagesAnalysis ==
    [total |-> 0, working |-> 0, broken |-> 0, withAlt |-> 0,
     withoutAlt |-> 0, details |-> <<>>]

NewPageResult(u) ==
    [url |-> u,
     title |-> <<>>,
     metaDescription |-> "",
     jsErrors |-> <<>>,
     consoleErrors |-> <<>>,
     brokenImages |-> <<>>,
     allImages |-> <<>>,
     imagesAnalysis |-> DefaultImagesAnalysis,
     links |-> <<>>,
     statusCode |-> 200,
     loadTime |-> 0,
     metaTags |-> NoMetaTags,
     isDocument |-> FALSE,
     documentType |-> <<>>,
     documentStatus |-> ""]

\* The fields setupErrorHandling adds to the record (its listeners are not
\* part of the record).
setupErrorHandling(pr) ==
    [benignErrors |-> <<>>, networkErrors |-> <<>>, warnings |-> <<>>] @@ pr

\* Date.now() - startTime: one positive duration stands for all of them.
Elapsed == 1


\* ------------------------------------------------------------- crawl loop
\* As Shift, but taking the element from the end of the array (queue.pop()).
Shift_Pop(q) == [item |-> q[Len(q)], rest |-> SubSeq(q, 1, Len(q) - 1)]

\* queue.shift(): the removed element and what is left of the array.
Shift(q) == [item |-> Head(q), rest |-> Tail(q)]

\* As VisitedAdd, but the identity is not recorded.
VisitedAdd_Forget(vis, normalizedUrl) == vis

\* visited.add(normalizedUrl)
VisitedAdd(vis, normalizedUrl) == vis \cup {normalizedUrl}

\* One pass from the loop test to the first await: shift the head, skip it
\* when its identity is visited, otherwise mark it visited, create its
\* PageResult and branch on isDocumentUrl.
Dequeue ==
    /\ pc = "loop"
    /\ queue /= <<>>
    /\ LET shifted == Shift(queue)
           normalizedUrl == normalizeUrl(shifted.item)
       IN /\ queue' = shifted.rest
          /\ IF normalizedUrl \in visited
             THEN UNCHANGED <<visited, pc, url, pageResult, listeners>>
             ELSE /\ visited' = VisitedAdd(visited, normalizedUrl)
                  /\ url' = shifted.item
                  /\ IF isDocumentUrl(shifted.item)
                     THEN /\ pageResult' = NewPageResult(shifted.item)
                          /\ pc' = "checkDocumentUrl"
                          /\ UNCHANGED listeners
                     ELSE /\ pageResult' =
                                 setupErrorHandling(NewPageResult(shifted.item))
                          /\ listeners' = Append(listeners, shifted.item)
                          /\ pc' = "goto"
    /\ UNCHANGED <<ROOT, pureVars, eventCount, report,
                   results, checkedImages, imgIdx, gotoLog, probeLog,
                   allLinksOf, depthOf>>

\* The loop test fails: browser.close(), then generateReport() is called.
Finish ==
    /\ pc = "loop"
    /\ queue = <<>>
    /\ pc' = "generateReport"
    /\ UNCHANGED <<ROOT, pureVars, eventCount, report, listeners,
                   visited, queue, results, checkedImages, url,
                   pageResult, imgIdx, gotoLog, probeLog, allLinksOf, depthOf>>

\* generateReport reads r.benignErrors.length of every result without a
\* guard; the other fields it reads unguarded are in every PageResult.
ReportReadable(rs) ==
    \A i \in 1..Len(rs) : "benignErrors" \in DOMAIN rs[i]

\* generateReport runs to its end: the report of the results is written.
GenerateReportOk ==
    /\ pc = "generateReport"
    /\ ReportReadable(results)
    /\ report' = <<results>>
    /\ pc' = "done"
    /\ UNCHANGED <<ROOT, pureVars, eventCount, listeners, visited, queue,
                   results, checkedImages, url, pageResult, imgIdx, gotoLog,
                   probeLog, allLinksOf, depthOf>>

\* generateReport throws a TypeError in its summary statistics; the
\* rejection of crawlAndTest is logged by .catch(console.error).
GenerateReportThrow ==
    /\ pc = "generateReport"
    /\ ~ReportReadable(results)
    /\ pc' = "reportFailed"
    /\ UNCHANGED <<ROOT, pureVars, eventCount, report, listeners, visited,
                   queue, results, checkedImages, url, pageResult, imgIdx,
                   gotoLog, probeLog, allLinksOf, depthOf>>

\* The iteration ends: the next one starts with fresh locals.
NextIteration ==
    /\ pc' = "loop"
    /\ url' = NoUrl
    /\ pageResult' = NoPageResult
    /\ imgIdx' = 0

\* ------------------------------------------------------------- documents
\* Index of the last token of u that holds a '.', 0 when there is none.
DotTokens == HostTokens \cup DOCUMENT_EXTENSIONS \cup {".PDF"}

LastDot(u) ==
    LET dots == {i \in 1..Len(u) : u[i] \in DotTokens}
    IN IF dots = {} THEN 0 ELSE CHOOSE i \in dots : \A j \in dots : j <= i

\* The characters of a token after its last '.', upper-cased.
UpperAfterDot(tok) ==
    CASE tok \in {".pdf", ".PDF"} -> "PDF"
      [] tok = ".png" -> "PNG"
      [] tok \in {"x.com", "other.com"} -> "COM"
      [] tok = ".evil.org" -> "ORG"
      [] OTHER -> tok

\* url.split('.').pop()?.toUpperCase() || 'DOCUMENT'
DocumentType(u) ==
    IF LastDot(u) = 0 THEN u
    ELSE <<UpperAfterDot(u[LastDot(u)])>> \o SubSeq(u, LastDot(u) + 1, Len(u))

\* url.split('/').pop()
LastSlashPart(u) ==
    LET sl == {i \in 1..Len(u) : u[i] = "/"}
    IN IF sl = {} THEN u
       ELSE SubSeq(u, (CHOOSE i \in sl : \A j \in sl : j <= i) + 1, Len(u))

\* A status code in a template string
StatusText(status) ==
    CASE status = 200 -> "200" [] status = 404 -> "404" [] OTHER -> "0"

\* As DocumentLoaded, but without the test of the status.
DocumentLoaded_NoStatusTest(pr, u, status) ==
    [pr EXCEPT !.loadTime = Elapsed,
               !.statusCode = IF status = 0 THEN 200 ELSE status,
               !.isDocument = TRUE,
               !.documentType = DocumentType(u),
               !.documentStatus = "accessible",
               !.title = <<"Document: ">> \o DocumentType(u)
                            \o LastSlashPart(u)]

\* checkDocumentUrl with a response of the given status (0: no response).
DocumentLoaded(pr, u, status) ==
    LET base == [pr EXCEPT !.loadTime = Elapsed,
                           !.statusCode = IF status = 0 THEN 200 ELSE status,
                           !.isDocument = TRUE,
                           !.documentType = DocumentType(u)]
    IN IF status >= 400
       THEN [base EXCEPT !.documentStatus = "broken",
                         !.jsErrors = Append(@, <<"Document returned status: ",
                                                  StatusText(status)>>)]
       ELSE [base EXCEPT !.documentStatus = "accessible",
                         !.title = <<"Document: ">> \o DocumentType(u)
                                      \o LastSlashPart(u)]

\* checkDocumentUrl when page.goto throws.
DocumentFailed(pr) ==
    [pr EXCEPT !.loadTime = Elapsed,
               !.documentStatus = "broken",
               !.jsErrors = Append(@, <<"Failed to load document: ",
                                      "timeout">>)]

CheckDocumentOk ==
    /\ pc = "checkDocumentUrl"
    /\ \E status \in DocStatuses :
          results' = Append(results, DocumentLoaded(pageResult, url, status))
    /\ gotoLog' = Append(gotoLog, url)
    /\ NextIteration
    /\ UNCHANGED <<ROOT, pureVars, eventCount, report, listeners,
                   visited, queue, checkedImages, probeLog, allLinksOf,
                   depthOf>>

CheckDocumentFail ==
    /\ pc = "checkDocumentUrl"
    /\ results' = Append(results, DocumentFailed(pageResult))
    /\ gotoLog' = Append(gotoLog, url)
    /\ NextIteration
    /\ UNCHANGED <<ROOT, pureVars, eventCount, report, listeners,
                   visited, queue, checkedImages, probeLog, allLinksOf,
                   depthOf>>

\* ------------------------------------------------------------ HTML pages
GotoOk ==
    /\ pc = "goto"
    /\ \E status \in SiteStatuses(url) :
          pageResult' = [pageResult EXCEPT !.loadTime = Elapsed,
                                           !.statusCode = status]
    /\ gotoLog' = Append(gotoLog, url)
    /\ pc' = "title"
    /\ UNCHANGED <<ROOT, pureVars, eventCount, report, listeners,
                   visited, queue, results, checkedImages, url, imgIdx,
                   probeLog, allLinksOf, depthOf>>

\* As GotoFail, but the continue is taken without results.push.
GotoFail_NoPush ==
    /\ pc = "goto"
    /\ gotoLog' = Append(gotoLog, url)
    /\ NextIteration
    /\ UNCHANGED <<ROOT, pureVars, eventCount, report, listeners,
                   visited, queue, results, checkedImages, probeLog,
                   allLinksOf, depthOf>>

\* page.goto throws: the result is pushed as it is and the loop continues.
GotoFail ==
    /\ pc = "goto"
    /\ results' = Append(results,
                     [pageResult EXCEPT
                        !.jsErrors = Append(@, <<"Page failed to load: ",
                                                 "timeout">>),
                        !.loadTime = Elapsed])
    /\ gotoLog' = Append(gotoLog, url)
    /\ NextIteration
    /\ UNCHANGED <<ROOT, pureVars, eventCount, report, listeners,
                   visited, queue, checkedImages, probeLog, allLinksOf,
                   depthOf>>

MissingTitle == <<"Missing <title>">>

TitleOk ==
    /\ pc = "title"
    /\ \E t \in SiteTitles(url) :
          pageResult' = [pageResult EXCEPT
                           !.title = IF t = <<>> THEN MissingTitle ELSE t]
    /\ pc' = "meta"
    /\ UNCHANGED <<ROOT, pureVars, eventCount, report, listeners,
                   visited, queue, results, checkedImages, url, imgIdx,
                   gotoLog, probeLog, allLinksOf, depthOf>>

\* await page.title() is outside every try block: when it rejects, the
\* exception leaves the while loop and crawlAndTest, and the only handler is
\* the .catch(console.error) of the call.
TitleThrow ==
    /\ pc = "title"
    /\ pc' = "aborted"
    /\ UNCHANGED <<ROOT, pureVars, eventCount, report, listeners,
                   visited, queue, results, checkedImages, url,
                   pageResult, imgIdx, gotoLog, probeLog, allLinksOf, depthOf>>

\* The meta description read (its failure is caught and gives '') and the
\* meta tag read (its failure is caught and leaves {}).
Meta ==
    /\ pc = "meta"
    /\ \E m \in SiteMeta(url) :
          pageResult' = [pageResult EXCEPT
                           !.metaDescription = m.metaDescription,
                           !.metaTags = m.metaTags]
    /\ pc' = "images"
    /\ UNCHANGED <<ROOT, pureVars, eventCount, report, listeners,
                   visited, queue, results, checkedImages, url, imgIdx,
                   gotoLog, probeLog, allLinksOf, depthOf>>


\* ----------------------------------------------------------------- images
\* String.trim on an alt text
Trim(alt) == IF alt = " " THEN "" ELSE alt

\* The browser's own verdict on one <img>.
BrowserWorking(img) ==
    img.complete /\ img.naturalWidth > 0 /\ img.naturalHeight > 0

ImageInfo(img) ==
    [src |-> img.src, alt |-> img.alt,
     naturalWidth |-> img.naturalWidth, naturalHeight |-> img.naturalHeight,
     complete |-> img.complete, isWorking |-> BrowserWorking(img)]

\* The in-page image analysis over the <img> elements of the document.
AnalyzeImages(images) ==
    LET idx == 1..Len(images)
    IN [total |-> Len(images),
        working |-> Cardinality({i \in idx : BrowserWorking(images[i])}),
        broken |-> Cardinality({i \in idx : ~BrowserWorking(images[i])}),
        withAlt |-> Cardinality({i \in idx : images[i].alt /= ""
                                             /\ Trim(images[i].alt) /= ""}),
        withoutAlt |-> Cardinality({i \in idx : ~(images[i].alt /= ""
                                             /\ Trim(images[i].alt) /= "")}),
        details |-> [i \in idx |-> ImageInfo(images[i])]]

\* imageInfo.src && !imageInfo.src.startsWith('data:')
NeedsCheck(info) == info.src /= <<>> /\ ~StartsWith(info.src, <<"data:">>)

\* As CacheKey, but keyed by the literal URL.
CacheKey_Literal(imageUrl) == imageUrl

\* The key an image is cached under.
CacheKey(imageUrl) == normalizeImageUrl(imageUrl)

\* Map.set
MapSet(map, key, value) == (key :> value) @@ map

\* As checkImageExists, but a probe that throws leaves the cache as it was.
checkImageExists_NoFailureCache(cache, imageUrl, outcome) ==
    LET normalizedImageUrl == CacheKey(imageUrl)
        exists == outcome.ok /\ outcome.status = 200
    IN IF normalizedImageUrl \in DOMAIN cache
       THEN [exists |-> cache[normalizedImageUrl].exists, cache |-> cache,
             probed |-> FALSE]
       ELSE IF outcome.throws
       THEN [exists |-> FALSE, cache |-> cache, probed |-> TRUE]
       ELSE [exists |-> exists,
             cache |-> MapSet(cache, normalizedImageUrl,
                              [exists |-> exists, verified |-> TRUE,
                               originalUrl |-> imageUrl,
                               status |-> outcome.status]),
             probed |-> TRUE]

\* checkImageExists: the value returned, the cache afterwards and whether a
\* HEAD request went out.  outcome is what page.evaluate does when called.
checkImageExists(cache, imageUrl, outcome) ==
    LET normalizedImageUrl == CacheKey(imageUrl)
        exists == outcome.ok /\ outcome.status = 200
    IN IF normalizedImageUrl \in DOMAIN cache
       THEN [exists |-> cache[normalizedImageUrl].exists, cache |-> cache,
             probed |-> FALSE]
       ELSE IF outcome.throws
       THEN [exists |-> FALSE,
             cache |-> MapSet(cache, normalizedImageUrl,
                              [exists |-> FALSE, verified |-> TRUE,
                               originalUrl |-> imageUrl, status |-> 0]),
             probed |-> TRUE]
       ELSE [exists |-> exists,
             cache |-> MapSet(cache, normalizedImageUrl,
                              [exists |-> exists, verified |-> TRUE,
                               originalUrl |-> imageUrl,
                               status |-> outcome.status]),
             probed |-> TRUE]

\* As Reconcile, but the verification result replaces the browser's verdict
\* in both directions.
Reconcile_Overwrite(analysis, i, exists, cached) ==
    LET info == analysis.details[i]
        checked == [verifiedExists |-> exists, cachedCheck |-> cached] @@ info
    IN IF exists /= info.isWorking
       THEN [analysis EXCEPT
               !.details[i] = [checked EXCEPT !.isWorking = exists],
               !.working = IF exists THEN @ + 1 ELSE @ - 1,
               !.broken = IF exists THEN @ - 1 ELSE @ + 1]
       ELSE [analysis EXCEPT !.details[i] = checked]

\* As Reconcile, but the downgrade leaves the aggregate counts as they were.
Reconcile_NoCount(analysis, i, exists, cached) ==
    LET info == analysis.details[i]
        checked == [verifiedExists |-> exists, cachedCheck |-> cached] @@ info
    IN IF ~exists /\ info.isWorking
       THEN [analysis EXCEPT
               !.details[i] = [checked EXCEPT !.isWorking = FALSE]]
       ELSE [analysis EXCEPT !.details[i] = checked]

\* The body of both branches of the verification loop for image i: record
\* the verified existence, and downgrade an image the browser took for
\* working when the verification says it does not exist.
Reconcile(analysis, i, exists, cached) ==
    LET info == analysis.details[i]
        checked == [verifiedExists |-> exists, cachedCheck |-> cached] @@ info
    IN IF ~exists /\ info.isWorking
       THEN [analysis EXCEPT
               !.details[i] = [checked EXCEPT !.isWorking = FALSE],
               !.working = @ - 1,
               !.broken = @ + 1]
       ELSE [analysis EXCEPT !.details[i] = checked]

ImagesEval ==
    /\ pc = "images"
    /\ \E imgs \in SiteImages(url) :
          pageResult' = [pageResult EXCEPT
                           !.imagesAnalysis =
                               AnalyzeImages(Take(imgs, MaxImages))]
    /\ imgIdx' = 1
    /\ pc' = "verify"
    /\ UNCHANGED <<ROOT, pureVars, eventCount, report, listeners,
                   visited, queue, results, checkedImages, url,
                   gotoLog, probeLog, allLinksOf, depthOf>>

\* The in-page analysis throws: the catch logs, imagesAnalysis and
\* brokenImages keep their initial values.
ImagesThrow ==
    /\ pc = "images"
    /\ pc' = "links"
    /\ UNCHANGED <<ROOT, pureVars, eventCount, report, listeners,
                   visited, queue, results, checkedImages, url,
                   pageResult, imgIdx, gotoLog, probeLog, allLinksOf, depthOf>>

CurrentImage == pageResult.imagesAnalysis.details[imgIdx]

InVerifyLoop ==
    /\ pc = "verify"
    /\ imgIdx <= Len(pageResult.imagesAnalysis.details)

\* An image without src or with a data: URI is left as it is.
VerifySkip ==
    /\ InVerifyLoop
    /\ ~NeedsCheck(CurrentImage)
    /\ imgIdx' = imgIdx + 1
    /\ UNCHANGED <<ROOT, pureVars, eventCount, report, listeners,
                   visited, queue, results, checkedImages, pc, url,
                   pageResult, gotoLog, probeLog, allLinksOf, depthOf>>

VerifyCached ==
    /\ InVerifyLoop
    /\ NeedsCheck(CurrentImage)
    /\ CacheKey(CurrentImage.src) \in DOMAIN checkedImages
    /\ pageResult' = [pageResult EXCEPT
                        !.imagesAnalysis =
                            Reconcile(@, imgIdx,
                               checkedImages[CacheKey(CurrentImage.src)].exists,
                               TRUE)]
    /\ imgIdx' = imgIdx + 1
    /\ UNCHANGED <<ROOT, pureVars, eventCount, report, listeners,
                   visited, queue, results, checkedImages, pc, url,
                   gotoLog, probeLog, allLinksOf, depthOf>>

VerifyNew ==
    /\ InVerifyLoop
    /\ NeedsCheck(CurrentImage)
    /\ CacheKey(CurrentImage.src) \notin DOMAIN checkedImages
    /\ \E outcome \in ProbeOutcomes :
          LET check == checkImageExists(checkedImages, CurrentImage.src,
                                        outcome)
          IN /\ checkedImages' = check.cache
             /\ probeLog' = IF check.probed
                            THEN Append(probeLog, CurrentImage.src)
                            ELSE probeLog
             /\ pageResult' = [pageResult EXCEPT
                                 !.imagesAnalysis =
                                     Reconcile(@, imgIdx, check.exists, FALSE)]
    /\ imgIdx' = imgIdx + 1
    /\ UNCHANGED <<ROOT, pureVars, eventCount, report, listeners,
                   visited, queue, results, pc, url, gotoLog,
                   allLinksOf, depthOf>>

\* details.filter(img => !img.isWorking).map(img => img.src)
BrokenImages(details) ==
    LET broken == SelectIdx(details,
                            {i \in 1..Len(details) : ~details[i].isWorking}, 1)
    IN [i \in 1..Len(broken) |-> broken[i].src]

VerifyDone ==
    /\ pc = "verify"
    /\ imgIdx > Len(pageResult.imagesAnalysis.details)
    /\ pageResult' = [pageResult EXCEPT
                        !.brokenImages =
                            BrokenImages(pageResult.imagesAnalysis.details)]
    /\ pc' = "links"
    /\ UNCHANGED <<ROOT, pureVars, eventCount, report, listeners,
                   visited, queue, results, checkedImages, url, imgIdx,
                   gotoLog, probeLog, allLinksOf, depthOf>>

\* ------------------------------------------------------------------ links
\* As InScope, but by origin: every link of the root's origin is in scope.
InScope_SameOrigin(link, root) == ParseURL(link).origin = ParseURL(root).origin

\* link.startsWith(ROOT)
InScope(link, root) == StartsWith(link, root)

\* As NotSeen, but without the look into visited.
NotSeen_QueueOnly(normalizedLink, vis, q) ==
    ~\E i \in 1..Len(q) : normalizeUrl(q[i]) = normalizedLink

\* As NotSeen, but without the look through the queue.
NotSeen_VisitedOnly(normalizedLink, vis, q) == normalizedLink \notin vis

\* !visited.has(normalizedLink)
\*   && !queue.some(q => normalizeUrl(q) === normalizedLink)
NotSeen(normalizedLink, vis, q) ==
    /\ normalizedLink \notin vis
    /\ ~\E i \in 1..Len(q) : normalizeUrl(q[i]) = normalizedLink

\* As PartitionLink, but a document link is also pushed onto the queue.
PartitionLink_FollowDocuments(acc, link, vis, root) ==
    IF isDocumentUrl(link)
    THEN [acc EXCEPT !.documentLinks = Append(@, link),
                     !.queue = Append(@, link)]
    ELSE IF InScope(link, root) /\ NotSeen(normalizeUrl(link), vis, acc.queue)
    THEN [acc EXCEPT !.internalLinks = Append(@, link),
                     !.queue = Append(@, link)]
    ELSE acc

\* The body of allLinks.forEach for one link.
PartitionLink(acc, link, vis, root) ==
    LET normalizedLink == normalizeUrl(link)
    IN IF isDocumentUrl(link)
       THEN [acc EXCEPT !.documentLinks = Append(@, link)]
       ELSE IF InScope(link, root) /\ NotSeen(normalizedLink, vis, acc.queue)
       THEN [acc EXCEPT !.internalLinks = Append(@, link),
                        !.queue = Append(@, link)]
       ELSE acc

RECURSIVE Partition(_, _, _, _, _)
Partition(allLinks, i, acc, vis, root) ==
    IF i > Len(allLinks) THEN acc
    ELSE Partition(allLinks, i + 1,
                   PartitionLink(acc, allLinks[i], vis, root), vis, root)

LinksOk ==
    /\ pc = "links"
    /\ \E ls \in SiteLinks(url) :
          LET allLinks == Take(ls, MaxLinks)
              part == Partition(allLinks, 1,
                                [queue |-> queue, internalLinks |-> <<>>,
                                 documentLinks |-> <<>>],
                                visited, ROOT)
          IN /\ queue' = part.queue
             /\ pageResult' = [documentLinks |-> part.documentLinks]
                              @@ [pageResult EXCEPT
                                    !.links = part.internalLinks]
             /\ allLinksOf' = MapSet(allLinksOf, url, allLinks)
             /\ depthOf' = [l \in Range(part.internalLinks)
                              |-> depthOf[url] + 1] @@ depthOf
    /\ pc' = "screenshot"
    /\ UNCHANGED <<ROOT, pureVars, eventCount, report, listeners,
                   visited, results, checkedImages, url, imgIdx,
                   gotoLog, probeLog>>

\* await page.$$eval("a[href]", ...) is outside every try block: when it
\* rejects, the exception leaves the while loop and crawlAndTest.
LinksThrow ==
    /\ pc = "links"
    /\ pc' = "aborted"
    /\ UNCHANGED <<ROOT, pureVars, eventCount, report, listeners,
                   visited, queue, results, checkedImages, url,
                   pageResult, imgIdx, gotoLog, probeLog, allLinksOf, depthOf>>

\* As Screenshot, but the loop goes on without results.push(pageResult).
Screenshot_NoPush ==
    /\ pc = "screenshot"
    /\ results' = results
    /\ NextIteration
    /\ UNCHANGED <<ROOT, pureVars, eventCount, report, listeners,
                   visited, queue, checkedImages, gotoLog, probeLog,
                   allLinksOf, depthOf>>

\* The screenshot (its failure is caught and only logged), results.push and
\* the pause before the next iteration.
Screenshot ==
    /\ pc = "screenshot"
    /\ results' = Append(results, pageResult)
    /\ NextIteration
    /\ UNCHANGED <<ROOT, pureVars, eventCount, report, listeners,
                   visited, queue, checkedImages, gotoLog, probeLog,
                   allLinksOf, depthOf>>

\* ------------------------------------------------------------ page events
\* The handlers setupErrorHandling registers with page.on stay on the shared
\* page for the rest of the run, each writing to the PageResult it was
\* registered for.  An event is emitted while a navigation is in progress;
\* one emitted at a later await of the same iteration reaches the same
\* handlers.
MaxEvents == 1

BenignPageErrorPatterns ==
    {"Syntax error, unrecognized expression:", "jQuery.expr", "Script error.",
     "Unable to preventDefault", "Cannot read property", "is not defined",
     "null is not an object", "undefined is not an object"}

BenignConsoleErrorPatterns ==
    {"Syntax error, unrecognized expression:", "Failed to load resource",
     "Blocked a frame with origin", "Content Security Policy",
     "Loading failed for the"}

\* patterns.some(pattern => pattern.test(message)), a message being the
\* sequence of its parts
MatchesAny(message, patterns) == \E i \in 1..Len(message) : message[i] \in patterns

\* page.on("pageerror", ...)
OnPageError(pr, message) ==
    IF MatchesAny(message, BenignPageErrorPatterns)
    THEN [pr EXCEPT !.benignErrors = Append(@, message)]
    ELSE [pr EXCEPT !.jsErrors = Append(@, message)]

\* page.on("console", ...)
OnConsole(pr, type, text) ==
    IF type = "error"
    THEN IF MatchesAny(text, BenignConsoleErrorPatterns)
         THEN [pr EXCEPT !.benignErrors = Append(@, text)]
         ELSE [pr EXCEPT !.consoleErrors = Append(@, text)]
    ELSE IF type = "warning"
    THEN [pr EXCEPT !.warnings = Append(@, text)]
    ELSE pr

\* page.on("response", ...)
OnResponse(pr, status, responseUrl) ==
    IF status >= 400
    THEN [pr EXCEPT !.networkErrors =
                        Append(@, <<StatusText(status), " - ">> \o responseUrl)]
    ELSE pr

\* site: what the page can emit while a URL is loading
PageEvents(u) ==
    LET id == normalizeUrl(u)
    IN CASE id = U_a ->
              {[kind |-> "pageerror", type |-> "", text |-> <<"boom">>,
                status |-> 0]}
         [] id = U_b ->
              {[kind |-> "console", type |-> "error",
                text |-> <<"Failed to load resource", ": 404">>,
                status |-> 0]}
         [] id = U_c ->
              {[kind |-> "response", type |-> "", text |-> I_hero,
                status |-> 404]}
         [] OTHER -> {}

\* The three handlers registered for one PageResult, run on one event.
HandleEvent(pr, ev) ==
    CASE ev.kind = "pageerror" -> OnPageError(pr, ev.text)
      [] ev.kind = "console" -> OnConsole(pr, ev.type, ev.text)
      [] ev.kind = "response" -> OnResponse(pr, ev.status, ev.text)

\* The page emits an event: every registered handler runs, on the
\* PageResult of the current iteration and on those already in results.
PageEvent ==
    /\ pc = "goto"
    /\ eventCount < MaxEvents
    /\ eventCount' = eventCount + 1
    /\ \E ev \in PageEvents(url) :
          /\ results' = [i \in 1..Len(results) |->
                            IF results[i].url \in Range(listeners)
                            THEN HandleEvent(results[i], ev)
                            ELSE results[i]]
          /\ pageResult' = IF url \in Range(listeners)
                           THEN HandleEvent(pageResult, ev)
                           ELSE pageResult
    /\ UNCHANGED <<ROOT, pureVars, report, listeners, visited, queue,
                   checkedImages, pc, url, imgIdx, gotoLog, probeLog,
                   allLinksOf, depthOf>>

Next ==
    \/ Dequeue
    \/ Finish
    \/ GenerateReportOk
    \/ GenerateReportThrow
    \/ CheckDocumentOk
    \/ CheckDocumentFail
    \/ GotoOk
    \/ GotoFail
    \/ TitleOk
    \/ TitleThrow
    \/ Meta
    \/ ImagesEval
    \/ ImagesThrow
    \/ VerifySkip
    \/ VerifyCached
    \/ VerifyNew
    \/ VerifyDone
    \/ LinksOk
    \/ LinksThrow
    \/ Screenshot

Spec == Init /\ [][Next]_vars

\* The crawl with the events of the page.
NextWithEvents == Next \/ PageEvent

EventSpec == Init /\ [][NextWithEvents]_vars

\* ------------------------------------------- the URL functions on their own
MaxPathLen == 2

PathTokens == {"/", "a", ":", ".pdf", ".PDF"}
Paths == UNION {[1..n -> PathTokens] : n \in 0..MaxPathLen}
Bases == {Origin_x, <<"urn", ":">>, <<>>}
TrailingSlashes == {<<>>, <<"/">>, <<"/", "/">>}
Queries == {<<>>, <<"?", "v=1">>, <<"?", "v=2">>}
Fragments == {<<>>, <<"#", "top">>}

\* The URL strings the functions are called with: a base and a path, then
\* trailing slashes, a query string and a fragment.
UrlParts ==
    [core : {b \o p : b \in Bases, p \in Paths},
     slashes : TrailingSlashes, query : Queries, hash : Fragments]

UrlOf(a) == a.core \o a.slashes \o a.query \o a.hash

\* Two URL strings that differ at most in trailing slashes, query string
\* and fragment.
PureInit ==
    /\ ROOT = Origin_x
    /\ visited = {}
    /\ queue = <<ROOT>>
    /\ results = <<>>
    /\ checkedImages = EmptyMap
    /\ pc = "loop"
    /\ url = NoUrl
    /\ pageResult = NoPageResult
    /\ imgIdx = 0
    /\ gotoLog = <<>>
    /\ probeLog = <<>>
    /\ allLinksOf = EmptyMap
    /\ depthOf = (ROOT :> 0)
    /\ listeners = <<>>
    /\ eventCount = 0
    /\ report = <<>>
    /\ \E a \in UrlParts, s \in TrailingSlashes, q \in Queries,
          h \in Fragments :
          arg = <<a, [core |-> a.core, slashes |-> s, query |-> q,
                      hash |-> h]>>
    /\ fn = "none"
    /\ out = <<>>

CallNormalizeUrl ==
    /\ fn = "none"
    /\ fn' = "normalizeUrl"
    /\ out' = <<normalizeUrl(UrlOf(arg[1])), normalizeUrl(UrlOf(arg[2]))>>
    /\ UNCHANGED <<arg, crawlVars>>

\* normalizeUrl on what normalizeUrl returned
CallNormalizeUrlAgain ==
    /\ fn = "normalizeUrl"
    /\ Len(out) = 2
    /\ out' = out \o <<normalizeUrl(out[1]), normalizeUrl(out[2])>>
    /\ UNCHANGED <<arg, fn, crawlVars>>

CallNormalizeImageUrl ==
    /\ fn = "none"
    /\ fn' = "normalizeImageUrl"
    /\ out' = <<normalizeImageUrl(UrlOf(arg[1])),
                normalizeImageUrl(UrlOf(arg[2]))>>
    /\ UNCHANGED <<arg, crawlVars>>

\* normalizeImageUrl on what normalizeImageUrl returned
CallNormalizeImageUrlAgain ==
    /\ fn = "normalizeImageUrl"
    /\ Len(out) = 2
    /\ out' = out \o <<normalizeImageUrl(out[1]), normalizeImageUrl(out[2])>>
    /\ UNCHANGED <<arg, fn, crawlVars>>

CallIsDocumentUrl ==
    /\ fn = "none"
    /\ fn' = "isDocumentUrl"
    /\ out' = <<isDocumentUrl(UrlOf(arg[1])), isDocumentUrl(UrlOf(arg[2]))>>
    /\ UNCHANGED <<arg, crawlVars>>

PureNext ==
    \/ CallNormalizeUrl
    \/ CallNormalizeUrlAgain
    \/ CallNormalizeImageUrl
    \/ CallNormalizeImageUrlAgain
    \/ CallIsDocumentUrl

PureSpec == PureInit /\ [][PureNext]_vars

TypeOK ==
    /\ pc \in {"loop", "checkDocumentUrl", "goto", "title", "meta", "images",
               "verify", "links", "screenshot", "generateReport", "done",
               "aborted", "reportFailed"}
    /\ ROOT \in ROOTS


\* ------------------------------------------------------- derived notions
ResultUrls == [i \in 1..Len(results) |-> results[i].url]

\* No two elements of the sequence have the same page identity.
Distinct(ids) == \A i, j \in 1..Len(ids) : i /= j => ids[i] /= ids[j]

DistinctPageIds(s) == Distinct([i \in 1..Len(s) |-> normalizeUrl(s[i])])

OriginOf(u) == ParseURL(u).origin

\* The successfully loaded HTML pages among the results: the records that
\* went through link extraction.
LoadedPages == {i \in 1..Len(results) : "documentLinks" \in DOMAIN results[i]}

\* ---------------------------------------------------------------- C1
\* C1: no two PageResults have the same page identity, and page.goto is
\* called at most once per page identity, whatever the link graph.
C1_AtMostOnce == DistinctPageIds(ResultUrls) /\ DistinctPageIds(gotoLog)

\* A finished crawl of at least three pages in which /a linked to itself and
\* back to the root.
C1_Witness ==
    /\ pc = "done"
    /\ Len(results) >= 3
    /\ U_a \in DOMAIN allLinksOf
    /\ {U_a, U_rootSl} \subseteq Range(allLinksOf[U_a])

\* ---------------------------------------------------------------- C2
\* C2: a link is pushed only when its identity is neither visited nor that
\* of another queue entry, and the queue never holds two entries with the
\* same identity.
C2_EnqueueDedup ==
    /\ []DistinctPageIds(queue)
    /\ [][\A k \in (Len(queue) + 1)..Len(queue') :
             /\ normalizeUrl(queue'[k]) \notin visited
             /\ \A j \in 1..Len(queue') :
                   j /= k => normalizeUrl(queue'[j]) /= normalizeUrl(queue'[k])
         ]_vars

\* The root page carried both /a and /a/ and the queue holds /a alone.
C2_Witness ==
    /\ pc = "screenshot"
    /\ url \in DOMAIN allLinksOf
    /\ {U_a, U_aSl} \subseteq Range(allLinksOf[url])
    /\ queue = <<U_a>>

\* ---------------------------------------------------------------- C3
\* Everything discovered so far in processing order: the processed targets,
\* the one in progress, the queue.
DiscoveryOrder ==
    ResultUrls \o (IF url = NoUrl THEN <<>> ELSE <<url>>) \o queue

IsPrefixOf(s, t) == Len(s) <= Len(t) /\ SubSeq(t, 1, Len(s)) = s

\* C3: targets are processed in discovery order, so depths never decrease
\* along the results; with root -> [A, B, ..] and A -> [C] the order is
\* root, A, B, C.
C3_BFSOrder ==
    /\ \A i, j \in 1..Len(DiscoveryOrder) :
          i < j => depthOf[DiscoveryOrder[i]] <= depthOf[DiscoveryOrder[j]]
    /\ (/\ {Origin_x, U_a} \subseteq DOMAIN allLinksOf
        /\ SubSeq(allLinksOf[Origin_x], 1, 2) = <<U_a, U_b>>
        /\ allLinksOf[U_a] = <<U_c>>)
       => IsPrefixOf(Take(ResultUrls, 4), <<Origin_x, U_a, U_b, U_c>>)

C3_Witness ==
    /\ pc = "done"
    /\ U_a \in DOMAIN allLinksOf
    /\ allLinksOf[U_a] = <<U_c>>
    /\ Take(ResultUrls, 4) = <<Origin_x, U_a, U_b, U_c>>
    /\ depthOf[U_c] = 2

\* ---------------------------------------------------------------- C4
\* Every per-image record written so far, in the results and in the page in
\* progress.
AllDetails ==
    UNION ({Range(results[i].imagesAnalysis.details) : i \in 1..Len(results)}
           \cup {IF "imagesAnalysis" \in DOMAIN pageResult
                 THEN Range(pageResult.imagesAnalysis.details) ELSE {}})

\* C4: at most one HEAD request per asset identity, a cache entry per probed
\* identity that is never changed or removed, and every verified image
\* carries the cached value of its identity.
C4_CacheWriteOnce ==
    /\ [](/\ \A i, j \in 1..Len(probeLog) :
               i /= j => normalizeImageUrl(probeLog[i])
                            /= normalizeImageUrl(probeLog[j])
          /\ DOMAIN checkedImages
                = {normalizeImageUrl(probeLog[i]) : i \in 1..Len(probeLog)}
          /\ \A d \in AllDetails :
               "verifiedExists" \in DOMAIN d =>
                  /\ normalizeImageUrl(d.src) \in DOMAIN checkedImages
                  /\ d.verifiedExists
                        = checkedImages[normalizeImageUrl(d.src)].exists)
    /\ [][\A k \in DOMAIN checkedImages :
             k \in DOMAIN checkedImages' /\ checkedImages'[k] = checkedImages[k]
         ]_vars

\* A later page got logo.png?v=1 from the cache entry that logo.png wrote.
C4_Witness ==
    /\ Len(results) >= 2
    /\ \E d \in Range(results[2].imagesAnalysis.details) :
          /\ d.src = I_logoQ
          /\ "cachedCheck" \in DOMAIN d
          /\ d.cachedCheck
          /\ checkedImages[normalizeImageUrl(d.src)].originalUrl = I_logo

\* ---------------------------------------------------------------- C5
\* C5: no URL of another origin than ROOT's is put on the queue or
\* navigated to.
C5_OriginScoped ==
    \A u \in Range(queue) \cup Range(gotoLog) : OriginOf(u) = OriginOf(ROOT)

\* ---------------------------------------------------------------- C6
\* Links of the loaded pages whose identity is in S that are same-origin
\* with the root and not assets.
FollowableFrom(S) ==
    {l \in UNION {Range(allLinksOf[u]) :
                    u \in {v \in DOMAIN allLinksOf : normalizeUrl(v) \in S}} :
        OriginOf(l) = OriginOf(ROOT) /\ ~isDocumentUrl(l)}

RECURSIVE ReachClosure(_)
ReachClosure(S) ==
    LET next == S \cup {normalizeUrl(l) : l \in FollowableFrom(S)}
    IN IF next = S THEN S ELSE ReachClosure(next)

ReachableIds == ReachClosure({normalizeUrl(ROOT)})

RunEnded == pc \in {"done", "aborted", "reportFailed"}

\* C6: when the loop has ended, every reachable page identity has a
\* PageResult.
C6_Complete ==
    RunEnded =>
        ReachableIds \subseteq {normalizeUrl(ResultUrls[i]) :
                                  i \in 1..Len(results)}

\* ---------------------------------------------------------------- C7
\* C7: the run ends, and when it has ended the loop has reached the empty
\* queue.
C7_Terminates == RunEnded => queue = <<>>

\* ---------------------------------------------------------------- C8
\* C8: no failure while one target is processed ends the loop while targets
\* are still queued.
C8_FailureIsolation == ~(pc = "aborted" /\ queue /= <<>>)

\* ---------------------------------------------------------------- C9
\* C9: at the end of the run every document link recorded on a crawled page
\* has a PageResult of its own with isDocument and a documentStatus.
C9_DocumentsChecked ==
    pc = "done" =>
        \A i \in LoadedPages :
            \A d \in Range(results[i].documentLinks) :
                \E j \in 1..Len(results) :
                    /\ results[j].url = d
                    /\ results[j].isDocument
                    /\ results[j].documentStatus \in {"accessible", "broken"}

\* ---------------------------------------------------------------- C10
\* The browser's verdict, read back from the fields the verification leaves
\* untouched.
ReportedWorking(d) ==
    d.complete /\ d.naturalWidth > 0 /\ d.naturalHeight > 0

Downgraded(details) ==
    {k \in 1..Len(details) :
        /\ NeedsCheck(details[k])
        /\ ReportedWorking(details[k])
        /\ ~details[k].verifiedExists}

\* C10: in every pushed result, an image with a verifiable src that the
\* browser reported working and whose verified existence is false is not
\* working and moves one unit from the working to the broken count; an image
\* the browser reported broken is never working.
C10_Reconciliation ==
    \A i \in 1..Len(results) :
        LET ia == results[i].imagesAnalysis
            n == Len(ia.details)
        IN /\ \A k \in 1..n :
                 LET d == ia.details[k]
                 IN /\ NeedsCheck(d) => "verifiedExists" \in DOMAIN d
                    /\ (NeedsCheck(d) /\ ReportedWorking(d)
                          /\ ~d.verifiedExists) => ~d.isWorking
                    /\ ~ReportedWorking(d) => ~d.isWorking
           /\ ia.working
                = Cardinality({k \in 1..n : ReportedWorking(ia.details[k])})
                    - Cardinality(Downgraded(ia.details))
           /\ ia.broken
                = Cardinality({k \in 1..n : ~ReportedWorking(ia.details[k])})
                    + Cardinality(Downgraded(ia.details))

\* One run in which a working image was downgraded on a cache hit and an
\* image the browser reported broken stayed broken although it exists.
C10_Witness ==
    /\ \E d \in AllDetails :
          /\ "cachedCheck" \in DOMAIN d
          /\ d.cachedCheck /\ ReportedWorking(d)
          /\ ~d.verifiedExists /\ ~d.isWorking
    /\ \E i \in 1..Len(results) :
          \E d \in Range(results[i].imagesAnalysis.details) :
             /\ "verifiedExists" \in DOMAIN d
             /\ ~ReportedWorking(d) /\ d.verifiedExists /\ ~d.isWorking


\* ---------------------------------------------------------------- C11
\* C11: a PageResult that is in results never changes afterwards and is
\* never removed.
C11_ResultImmutable ==
    [][/\ Len(results') >= Len(results)
       /\ \A i \in 1..Len(results) : results'[i] = results[i]]_vars

\* ---------------------------------------------------------------- C17
\* C17: when an exception has ended the loop after some targets were
\* processed, generateReport has run on the results collected so far.
C17_FlushOnAbort ==
    (pc = "aborted" /\ results /= <<>>) => report = <<results>>

\* ---------------------------------------------------------------- C18
\* C18: no link of another origin than the root's is in the links or the
\* documentLinks of any PageResult.
C18_OffOriginUnrecorded ==
    \A i \in 1..Len(results) :
        \A l \in Range(results[i].links)
                 \cup (IF i \in LoadedPages
                       THEN Range(results[i].documentLinks) ELSE {}) :
            OriginOf(l) = OriginOf(ROOT)

\* ---------------------------------------------------------------- C19
\* The result of an HTML target whose navigation failed.
NavigationFailed(r) ==
    /\ ~isDocumentUrl(r.url)
    /\ \E k \in 1..Len(r.jsErrors) : r.jsErrors[k][1] = "Page failed to load: "

\* Number of elements of s with the page identity of u.
CountId(s, u) ==
    Cardinality({k \in 1..Len(s) : normalizeUrl(s[k]) = normalizeUrl(u)})

\* C19: a failed navigation of an HTML target appends exactly one PageResult
\* with the failure in jsErrors and nothing extracted, enqueues nothing,
\* probes nothing, and its identity stays visited and is navigated only once.
C19_NavigationFailure ==
    /\ [](\A i \in 1..Len(results) :
            NavigationFailed(results[i]) =>
               /\ results[i].title = <<>>
               /\ results[i].metaTags = NoMetaTags
               /\ results[i].imagesAnalysis = DefaultImagesAnalysis
               /\ results[i].links = <<>>
               /\ i \notin LoadedPages
               /\ normalizeUrl(results[i].url) \in visited
               /\ CountId(ResultUrls, results[i].url) = 1
               /\ CountId(gotoLog, results[i].url) = 1)
    /\ [][(pc = "goto" /\ pc' = "loop") =>
            /\ Len(results') = Len(results) + 1
            /\ SubSeq(results', 1, Len(results)) = results
            /\ results'[Len(results')].url = url
            /\ NavigationFailed(results'[Len(results')])
            /\ queue' = queue
            /\ probeLog' = probeLog
            /\ checkedImages' = checkedImages
            /\ visited' = visited
         ]_vars

\* The crawl is over, /a failed to load and was linked again from /b.
C19_Witness ==
    /\ pc = "done"
    /\ \E i \in 1..Len(results) :
          results[i].url = U_a /\ NavigationFailed(results[i])
    /\ U_b \in DOMAIN allLinksOf
    /\ U_a \in Range(allLinksOf[U_b])

\* ---------------------------------------------------------------- C20
\* C20: checking a document target ends without an exception and appends
\* exactly one PageResult: accessible with a status below 400, broken with
\* a message in jsErrors otherwise; nothing is extracted, probed or enqueued.
C20_DocumentOutcome ==
    /\ [](\A i \in 1..Len(results) :
            isDocumentUrl(results[i].url) =>
               /\ results[i].documentStatus \in {"accessible", "broken"}
               /\ results[i].documentStatus = "accessible"
                     => /\ results[i].statusCode < 400
                        /\ results[i].jsErrors = <<>>
               /\ results[i].documentStatus = "broken"
                     => \/ /\ results[i].statusCode >= 400
                           /\ results[i].jsErrors
                                 = <<<<"Document returned status: ",
                                       StatusText(results[i].statusCode)>>>>
                        \/ /\ Len(results[i].jsErrors) = 1
                           /\ results[i].jsErrors[1][1]
                                 = "Failed to load document: "
               /\ results[i].statusCode >= 400
                     => results[i].documentStatus = "broken"
               /\ results[i].imagesAnalysis = DefaultImagesAnalysis
               /\ results[i].links = <<>>
               /\ results[i].metaTags = NoMetaTags
               /\ i \notin LoadedPages
               /\ CountId(ResultUrls, results[i].url) = 1)
    /\ [][pc = "checkDocumentUrl" =>
            /\ pc' = "loop"
            /\ Len(results') = Len(results) + 1
            /\ SubSeq(results', 1, Len(results)) = results
            /\ results'[Len(results')].url = url
            /\ queue' = queue
            /\ probeLog' = probeLog
         ]_vars

\* A document that answered 404 is in results as broken.
C20_Witness ==
    \E i \in 1..Len(results) :
        /\ isDocumentUrl(results[i].url)
        /\ results[i].statusCode = 404
        /\ results[i].documentStatus = "broken"


\* ---------------------------------------------------------------- C12
\* C12: normalizeUrl and normalizeImageUrl return what they are given when
\* they are given what they returned.
C12_Idempotent ==
    (fn \in {"normalizeUrl", "normalizeImageUrl"} /\ Len(out) = 4)
       => out[3] = out[1] /\ out[4] = out[2]

\* ---------------------------------------------------------------- C13
Parseable(a) == ParseURL(UrlOf(a)).ok

\* C13: two parseable URLs of the same origin and path that differ in
\* trailing slashes, query string or fragment only have the same
\* normalizeUrl identity.
C13_PageIdentity ==
    (fn = "normalizeUrl" /\ Parseable(arg[1]) /\ Parseable(arg[2]))
       => out[1] = out[2]

\* https://x.com/a// and https://x.com/a?v=1#top both gave https://x.com/a.
C13_Witness ==
    /\ fn = "normalizeUrl"
    /\ UrlOf(arg[1]) = U_a \o <<"/", "/">>
    /\ UrlOf(arg[2]) = U_a \o <<"?", "v=1", "#", "top">>
    /\ out[1] = U_a
    /\ out[2] = U_a

PathEndsWithExtension(a) ==
    LET path == SubSeq(a.core, Len(Origin_x) + 1, Len(a.core)) \o a.slashes
    IN /\ path /= <<>>
       /\ path[Len(path)] \in DOCUMENT_EXTENSIONS \cup {".PDF"}

HttpsWithPath(a) ==
    /\ StartsWith(a.core, Origin_x)
    /\ Len(a.core) > Len(Origin_x) => a.core[Len(Origin_x) + 1] = "/"

\* C15: isDocumentUrl is true exactly when the path, lower-cased, ends with
\* one of DOCUMENT_EXTENSIONS, and query string and fragment have no
\* influence.
C15_Classification ==
    fn = "isDocumentUrl" =>
       /\ \A i \in 1..2 :
             /\ HttpsWithPath(arg[i])
                   => (out[i] <=> PathEndsWithExtension(arg[i]))
             /\ out[i] <=> /\ Parseable(arg[i])
                           /\ EndsWithExtension(
                                 ParseURL(UrlOf(arg[i])).pathname, TRUE)
       /\ arg[1].slashes = arg[2].slashes => out[1] = out[2]

\* https://x.com/.PDF and https://x.com/.PDF?v=1 were found to be documents.
C15_Witness ==
    /\ fn = "isDocumentUrl"
    /\ UrlOf(arg[1]) = Origin_x \o <<"/", ".PDF">>
    /\ UrlOf(arg[2]) = Origin_x \o <<"/", ".PDF", "?", "v=1">>
    /\ out = <<TRUE, TRUE>>

\* ---------------------------------------------------------------- C16
\* C16: for a string that new URL rejects, normalizeUrl and
\* normalizeImageUrl return the string and isDocumentUrl returns false,
\* and no call changes any state.
C16_MalformedFallback ==
    /\ [](\A i \in 1..2 :
            (fn /= "none" /\ ~Parseable(arg[i])) =>
               IF fn = "isDocumentUrl"
               THEN out[i] = FALSE
               ELSE /\ out[i] = UrlOf(arg[i])
                    /\ Len(out) = 4 => out[i + 2] = UrlOf(arg[i]))
    /\ [][UNCHANGED crawlVars]_vars

\* normalizeUrl was called with /a and with /a/?v=1 and returned them.
C16_Witness ==
    /\ fn = "normalizeUrl"
    /\ UrlOf(arg[1]) = <<"/", "a">>
    /\ UrlOf(arg[2]) = <<"/", "a", "/", "?", "v=1">>
    /\ out[1] = <<"/", "a">>
    /\ out[2] = <<"/", "a", "/", "?", "v=1">>


\* ---------------------------------------------------------------- C21
\* The links and documentLinks of a PageResult that went through the
\* partition of the anchors read from its page.
PartitionedByType(r) ==
    /\ r.documentLinks = SelectSeq(allLinksOf[r.url], isDocumentUrl)
    /\ \A l \in Range(r.links) : ~isDocumentUrl(l)

\* C21: the documentLinks of a loaded page are the links read from it for
\* which isDocumentUrl is true, none of them is among its links, and no
\* document URL but the root is ever on the queue or navigated to.  (Every
\* PageResult is the last of results when it is appended, and depthOf holds
\* every URL that was ever on the queue.)
C21_DocumentLinksNotFollowed ==
    /\ pc = "screenshot" => PartitionedByType(pageResult)
    /\ Len(results) \in LoadedPages => PartitionedByType(results[Len(results)])
    /\ \A u \in DOMAIN depthOf : isDocumentUrl(u) => u = ROOT
    /\ Range(queue) \cup Range(gotoLog) \subseteq DOMAIN depthOf

\* The crawl is over, two pages linked to /d.pdf and it was never loaded.
C21_Witness ==
    /\ pc = "done"
    /\ Cardinality({i \in LoadedPages :
                       U_doc \in Range(results[i].documentLinks)}) >= 2
    /\ U_doc \notin Range(gotoLog)

\* ---------------------------------------------------------------- C22
\* The probe of this step: the image URL the HEAD request went out for.
ProbedUrl == probeLog'[Len(probeLog')]

\* A probe that did not answer 200 left {exists: false, verified: true}.
FailureCached(entry) ==
    /\ entry.verified
    /\ entry.exists <=> entry.status = 200

\* C22: a probe that fails (the fetch fails in the page, page.evaluate
\* throws, or the status is not 200) does not stop the page: it gives false
\* to the image it was made for, leaves an entry {exists: false, verified:
\* true} under the asset identity, and a reference to an identity that has
\* an entry takes the entry's value and sends no request.
C22_FailureCached ==
    /\ [](\A k \in DOMAIN checkedImages : FailureCached(checkedImages[k]))
    /\ [][/\ probeLog' /= probeLog =>
               /\ probeLog' = Append(probeLog, CurrentImage.src)
               /\ CacheKey(ProbedUrl) \notin DOMAIN checkedImages
               /\ CacheKey(ProbedUrl) \in DOMAIN checkedImages'
               /\ pc' = "verify"
               /\ pageResult'.imagesAnalysis.details[imgIdx].verifiedExists
                     = checkedImages'[CacheKey(ProbedUrl)].exists
               /\ ~pageResult'.imagesAnalysis.details[imgIdx].cachedCheck
          /\ (/\ InVerifyLoop
              /\ NeedsCheck(CurrentImage)
              /\ CacheKey(CurrentImage.src) \in DOMAIN checkedImages
              /\ imgIdx' /= imgIdx) =>
               /\ probeLog' = probeLog
               /\ pageResult'.imagesAnalysis.details[imgIdx].verifiedExists
                     = checkedImages[CacheKey(CurrentImage.src)].exists
               /\ pageResult'.imagesAnalysis.details[imgIdx].cachedCheck
         ]_vars

\* The probe of logo.png threw; a later page referred to logo.png?v=1 and got
\* false from the entry, with one request in all for that identity.
C22_Witness ==
    /\ Len(results) >= 2
    /\ CacheKey(I_logo) \in DOMAIN checkedImages
    /\ checkedImages[CacheKey(I_logo)].status = 0
    /\ ~checkedImages[CacheKey(I_logo)].exists
    /\ \E d \in Range(results[2].imagesAnalysis.details) :
          /\ CacheKey(d.src) = CacheKey(I_logo)
          /\ "cachedCheck" \in DOMAIN d
          /\ d.cachedCheck
          /\ ~d.verifiedExists
    /\ Cardinality({i \in 1..Len(probeLog) :
                       CacheKey(probeLog[i]) = CacheKey(I_logo)}) = 1

\* ---------------------------------------------------------------- C23
\* C23: an event of the page is recorded in the PageResult of the target
\* that is being processed when it fires, and adds nothing to a PageResult
\* that is already in results.
C23_EventAttribution ==
    [][eventCount' /= eventCount =>
          /\ \E ev \in PageEvents(url) : pageResult' = HandleEvent(pageResult, ev)
          /\ results' = results]_vars

\* ---------------------------------------------------------------- C24
\* The aggregate counts of an imagesAnalysis agree with its details.
CountsConsistent(ia) ==
    LET idx == 1..Len(ia.details)
    IN /\ ia.working = Cardinality({k \in idx : ia.details[k].isWorking})
       /\ ia.broken = Cardinality({k \in idx : ~ia.details[k].isWorking})
       /\ ia.working + ia.broken = ia.total
       /\ ia.withAlt + ia.withoutAlt = ia.total
       /\ ia.total = Len(ia.details)

\* C24: in the PageResult of every loaded HTML page, and in the one being
\* built at every step of the verification loop, working is the number of
\* details with isWorking, broken the number without, working + broken =
\* total and withAlt + withoutAlt = total.
C24_CountsConsistent ==
    /\ \A i \in LoadedPages : CountsConsistent(results[i].imagesAnalysis)
    /\ pc \in {"verify", "links", "screenshot"} =>
          CountsConsistent(pageResult.imagesAnalysis)

\* The root page shows logo.png and logo.png?v=1, both rendered; the probe
\* of the first failed and the second was downgraded from the cache entry.
C24_Witness ==
    /\ 1 \in LoadedPages
    /\ LET ia == results[1].imagesAnalysis
       IN /\ Len(ia.details) = 2
          /\ CacheKey(ia.details[1].src) = CacheKey(ia.details[2].src)
          /\ ia.details[1].src /= ia.details[2].src
          /\ ReportedWorking(ia.details[1]) /\ ~ia.details[1].isWorking
          /\ ReportedWorking(ia.details[2]) /\ ~ia.details[2].isWorking
          /\ ia.details[2].cachedCheck
          /\ ia.working = 0 /\ ia.broken = 2

\* ---------------------------------------------------------------- C25
\* C25: every URL that link discovery pushed onto the queue, and so every
\* URL that is queued, recorded as an internal link or navigated to, starts
\* with ROOT; a link of the root's origin that does not start with ROOT is
\* in none of them.
C25_PrefixScope ==
    /\ \A u \in Range(queue) \cup Range(gotoLog) \cup DOMAIN depthOf :
          StartsWith(u, ROOT)
    /\ pc = "screenshot" =>
          /\ \A l \in Range(pageResult.links) : StartsWith(l, ROOT)
          /\ \A l \in Range(allLinksOf[url]) :
                ~StartsWith(l, ROOT) => l \notin Range(queue)

\* ROOT is https://x.com/b: the page linked to /b/c, which was crawled, and
\* to /a of the same origin, which was not.
C25_Witness ==
    /\ pc = "done"
    /\ ROOT = U_b
    /\ U_b \in DOMAIN allLinksOf
    /\ U_a \in Range(allLinksOf[U_b])
    /\ OriginOf(U_a) = OriginOf(ROOT)
    /\ ~StartsWith(U_a, ROOT)
    /\ U_bc \in Range(gotoLog)
    /\ U_a \notin Range(gotoLog)
    /\ \A i \in 1..Len(results) : results[i].url /= U_a

\* ---------------------------------------------------------------- C26
\* C26: no queue entry has a page identity that is in visited, so the URL
\* the loop takes off the queue is never one it skips as already visited:
\* every shift adds a new identity to visited and starts a target.
C26_QueueVisitedDisjoint ==
    /\ [](\A k \in 1..Len(queue) : normalizeUrl(queue[k]) \notin visited)
    /\ [][(pc = "loop" /\ queue /= <<>> /\ queue' /= queue) =>
             /\ normalizeUrl(queue[1]) \notin visited
             /\ visited' = visited \cup {normalizeUrl(queue[1])}
             /\ url' = queue[1]
             /\ pc' \in {"goto", "checkDocumentUrl"}
         ]_vars

\* The loop is about to shift the next URL while a page that was loaded has
\* an in-scope link back to an identity already visited.
C26_Witness ==
    /\ pc = "loop"
    /\ queue /= <<>>
    /\ Len(results) >= 2
    /\ \E u \in DOMAIN allLinksOf :
          \E l \in Range(allLinksOf[u]) :
             /\ InScope(l, ROOT)
             /\ ~isDocumentUrl(l)
             /\ normalizeUrl(l) \in visited
             /\ normalizeUrl(l) /= normalizeUrl(u)

\* ---------------------------------------------------------------- C27
\* ids lists every identity of vis once and nothing else.
OneResultEach(ids, vis) ==
    /\ Len(ids) = Cardinality(vis)
    /\ \A v \in vis : Cardinality({i \in 1..Len(ids) : ids[i] = v}) = 1

\* The loop is between two targets, or has ended by the empty queue.
BetweenTargets == pc \in {"loop", "generateReport", "done", "reportFailed"}

\* C27: whenever the loop is about to test the queue, and after it has left
\* by the empty queue, results has as many PageResults as visited has
\* identities and every visited identity is the identity of exactly one
\* PageResult's url: document, failed navigation and loaded page alike.
C27_VisitedResults ==
    BetweenTargets =>
        OneResultEach([i \in 1..Len(results) |-> normalizeUrl(results[i].url)],
                      visited)

\* The loop is about to dequeue after a navigation that failed and a page
\* that loaded.
C27_Witness ==
    /\ pc = "loop"
    /\ queue /= <<>>
    /\ Cardinality(visited) >= 3
    /\ \E i \in 1..Len(results) : NavigationFailed(results[i])
    /\ LoadedPages /= {}

\* ---------------------------------------------------------------- C28
\* The fields generateReport reads from every PageResult without a guard.
ReadUnguarded == {"jsErrors", "consoleErrors", "brokenImages", "links",
                  "benignErrors"}

\* C28: every PageResult in results has the fields generateReport reads
\* without a guard, and generateReport never ends by an exception.
C28_ReportReady ==
    /\ \A i \in 1..Len(results) : ReadUnguarded \subseteq DOMAIN results[i]
    /\ pc /= "reportFailed"

====
